---- MODULE Spec2Model ----
(***************************************************************************)
(* Model of the response cache of the statigo site server: the            *)
(* Serve/Record middleware (framework/middleware CacheMiddleware), the     *)
(* cache manager it talks to, the origin handler and the webhook           *)
(* invalidator.  Each HTTP request is a process occupying a slot; its      *)
(* steps are the points where the middleware touches the shared index.     *)
(***************************************************************************)
EXTENDS Integers, Sequences, FiniteSets, TLC

(* ---------------------------- bounds ----------------------------------- *)
\* number of request slots (requests that can be in flight at once)
NReq == 2
\* number of distinct outputs the origin can produce over time
MaxVersion == 2

Reqs == 1..NReq

(* ---------------------------- inputs ----------------------------------- *)
Methods == {"GET", "POST"}
Languages == {"en"}
Strategies == {"", "dynamic", "static", "incremental", "immutable"}
Entities == {"post", "category", "tag", "author", "keyvalue", "cms", "unknown"}

\* A URL path is the sequence of its symbols: "/" and the segment names.
PathA == <<"/", "a">>
PathB == <<"/", "b">>
PathX == <<"/", "x">>
ReqPaths == {PathA, PathB, PathX}

StatusOK == 200
StatusNotModified == 304
StatusInternalServerError == 500

EmptyBody == <<>>
ErrBody == <<"error">>

(* ------------------------- route registry ------------------------------ *)
NoRoute == [Canonical |-> <<>>, Path |-> <<>>, Strategy |-> "", ok |-> FALSE]

RouteDefinition(canonical, path, strategy) ==
  [Canonical |-> canonical, Path |-> path, Strategy |-> strategy, ok |-> TRUE]

\* Registry.AddRoute: the path and the path with a trailing slash map to def.
AddRoute(pathToRoute, def) ==
  LET withPath == [p \in DOMAIN pathToRoute \cup {def.Path} |->
                     IF p = def.Path THEN def ELSE pathToRoute[p]]
      slash == Append(def.Path, "/")
  IN  IF def.Path # <<"/">>
      THEN [p \in DOMAIN withPath \cup {slash} |->
              IF p = slash THEN def ELSE withPath[p]]
      ELSE withPath

\* Registry.GetByPath
GetByPath(pathToRoute, path) ==
  IF path \in DOMAIN pathToRoute THEN pathToRoute[path] ELSE NoRoute

NewRegistry == [p \in {} |-> NoRoute]

\* The route tables the site is started with: /a is a cacheable page, /b is
\* a second route, either a page of its own or another URL of /a's page.
RouteTables ==
  { <<RouteDefinition(PathA, PathA, s1), RouteDefinition(c2, PathB, s2)>> :
      s1 \in {"static", "incremental"},
      c2 \in {PathA, PathB},
      s2 \in {"", "dynamic", "immutable"} }

\* The tables with the one page /a and an uncached page /b.
PageTables ==
  { <<RouteDefinition(PathA, PathA, s1), RouteDefinition(PathB, PathB, "")>> :
      s1 \in {"static", "incremental"} }

LoadRoutes(defs) == AddRoute(AddRoute(NewRegistry, defs[1]), defs[2])

BlogsPrefix == <<"/", "blogs", "/">>

HasPrefix(s, prefix) ==
  Len(s) >= Len(prefix) /\ SubSeq(s, 1, Len(prefix)) = prefix

\* CanonicalPathMiddleware: the canonical path and strategy put in the
\* request context ("" where none is set).
CanonicalPathMiddleware(pathToRoute, path) ==
  LET route == GetByPath(pathToRoute, path)
  IN  IF route.ok
      THEN [canonical |-> route.Canonical, strategy |-> route.Strategy]
      ELSE IF HasPrefix(path, BlogsPrefix) /\ Len(path) > Len(BlogsPrefix)
      THEN [canonical |-> path, strategy |-> "static"]
      ELSE [canonical |-> <<>>, strategy |-> ""]

(* ------------------------ cache manager -------------------------------- *)
\* cache.GetCacheKey(canonical, lang, nil): a fingerprint of the pair.
GetCacheKey(canonical, lang) == <<canonical, lang>>

\* ETag digest of the raw payload bytes.
Digest(body) == <<"sha", body>>

NoEntry ==
  [found |-> FALSE, body |-> EmptyBody, ETag |-> <<>>, strategy |-> "",
   path |-> <<>>, stale |-> FALSE, readable |-> TRUE]

\* Manager.Get: lookup of the index, (entry, found).
Get(idx, key) == IF key \in DOMAIN idx THEN idx[key] ELSE NoEntry

\* Entry.IsStale
IsStale(entry) == entry.stale

\* cache.GetDecompressedContent: the payload, or an error.
GetDecompressedContent(entry) ==
  IF entry.readable THEN [err |-> FALSE, content |-> entry.body]
  ELSE [err |-> TRUE, content |-> EmptyBody]

\* The entry Manager.Set commits: payload, its ETag, the strategy, fresh.
NewEntry(content, strategy, path) ==
  [found |-> TRUE, body |-> content, ETag |-> Digest(content),
   strategy |-> strategy, path |-> path, stale |-> FALSE, readable |-> TRUE]

\* Manager.Set on success: the entry of key is created or replaced.
Set(idx, key, content, strategy, path) ==
  [k \in DOMAIN idx \cup {key} |->
     IF k = key THEN NewEntry(content, strategy, path) ELSE idx[k]]

\* Manager.MarkStale(strategy, _): flips stale on the entries of a strategy.
MarkStale(idx, strategy) ==
  [k \in DOMAIN idx |->
     IF idx[k].strategy = strategy
     THEN [idx[k] EXCEPT !.stale = TRUE] ELSE idx[k]]

\* Manager.MarkAllStale(_): flips stale on every entry.
MarkAllStale(idx) ==
  [k \in DOMAIN idx |-> [idx[k] EXCEPT !.stale = TRUE]]

(* --------------------- If-None-Match matching -------------------------- *)
\* Header text is a sequence of symbols: "*", ",", " " and validators.
\* A validator is one symbol standing for the text of an entity tag.
Star == <<"*">>
Comma == <<",">>
Space == <<" ">>
WeakETag(digest) == <<"W/", digest>>
StrongETag(digest) == <<"strong", digest>>

RECURSIVE TrimLeft(_)
TrimLeft(s) ==
  IF s # <<>> /\ Head(s) = Space THEN TrimLeft(Tail(s)) ELSE s

RECURSIVE TrimRight(_)
TrimRight(s) ==
  IF s # <<>> /\ s[Len(s)] = Space
  THEN TrimRight(SubSeq(s, 1, Len(s) - 1)) ELSE s

\* strings.TrimSpace
TrimSpace(s) == TrimRight(TrimLeft(s))

\* strings.Split(s, ","): the pieces between separators, in order
\* (cur is the piece being read).
RECURSIVE Split(_, _)
Split(s, cur) ==
  IF s = <<>> THEN <<cur>>
  ELSE IF Head(s) = Comma THEN <<cur>> \o Split(Tail(s), <<>>)
  ELSE Split(Tail(s), Append(cur, Head(s)))

etagMatchNoTrim(ifNoneMatch, etag) ==
  IF ifNoneMatch = <<>> THEN FALSE
  ELSE IF ifNoneMatch = <<Star>> THEN TRUE
  ELSE \E i \in 1..Len(Split(ifNoneMatch, <<>>)) :
         Split(ifNoneMatch, <<>>)[i] = <<etag>>

\* etagMatch: the header is "*", or a member of its list is the ETag.
etagMatch(ifNoneMatch, etag) ==
  IF ifNoneMatch = <<>> THEN FALSE
  ELSE IF ifNoneMatch = <<Star>> THEN TRUE
  ELSE \E i \in 1..Len(Split(ifNoneMatch, <<>>)) :
         TrimSpace(Split(ifNoneMatch, <<>>)[i]) = <<etag>>

OtherETag == WeakETag(Digest(<<"other">>))

\* The If-None-Match header of a request, by its shape, for a client that
\* knows the validator e of the entry it asks for and another validator o.
HeaderShapes ==
  {"absent", "star", "exact", "other", "last", "first", "star-list",
   "padded-star", "joined", "strong"}

IfNoneMatch(shape, e, o) ==
  CASE shape = "absent"      -> <<>>
    [] shape = "star"        -> <<Star>>
    [] shape = "exact"       -> <<e>>
    [] shape = "other"       -> <<o>>
    [] shape = "last"        -> <<o, Comma, Space, e>>
    [] shape = "first"       -> <<e, Space, Comma, o>>
    [] shape = "star-list"   -> <<Star, Comma, o>>
    [] shape = "padded-star" -> <<Space, Star>>
    [] shape = "joined"      -> <<e, o>>
    [] shape = "strong"      -> <<StrongETag(e[2])>>

(* -------------------------- origin handler ----------------------------- *)
StatusNotFound == 404
NotFoundBody == <<"not found">>

\* What the page handler of a route renders for a language from the
\* current content.
Render(route, lang, version) == <<route.Path, lang, version>>

\* The calls a handler makes on its ResponseWriter.
CallWriteHeader(code) ==
  [op |-> "WriteHeader", code |-> code, b |-> EmptyBody, v |-> ""]
CallWrite(b) == [op |-> "Write", code |-> 0, b |-> b, v |-> ""]
\* w.Header().Set("Content-Type", v)
CallSetContentType(v) == [op |-> "Header", code |-> 0, b |-> EmptyBody, v |-> v]

\* Renderer.Render sets the type and writes the page; http.Error sets its
\* own type, then the status, then the message.
ContentTypeRendered == "text/html"
ContentTypeError == "text/plain; charset=utf-8"
RenderCalls(page) == <<CallSetContentType(ContentTypeRendered), CallWrite(page)>>
ErrorCalls(code, message) ==
  <<CallSetContentType(ContentTypeError), CallWriteHeader(code), CallWrite(message)>>

\* The runs the handler reached by a request can make.  A route's page
\* handler renders the page ("page"), renders nothing ("empty") or fails to
\* render and answers 500 ("error"); an unrouted path gets the not-found
\* handler whatever the outcome.
Outcomes == {"page", "empty", "error"}

\* The size, in symbols, above which a body counts as larger than the
\* recorder's buffer cap, and what a handler writes after the page to go
\* over it ("large").
BufferCap == 3
Padding == <<"pad">>

HandlerRun(route, lang, version, outcome) ==
  IF ~route.ok
  THEN <<CallWriteHeader(StatusNotFound)>> \o RenderCalls(NotFoundBody)
  ELSE CASE outcome = "page"  -> RenderCalls(Render(route, lang, version))
         [] outcome = "empty" -> <<CallWrite(EmptyBody)>>
         [] outcome = "large" ->
              RenderCalls(Render(route, lang, version)) \o <<CallWrite(Padding)>>
         [] outcome = "error" -> ErrorCalls(StatusInternalServerError, ErrBody)

\* strings.TrimSuffix(s, "/")
TrimSuffixSlash(s) ==
  IF Len(s) > 0 /\ s[Len(s)] = "/" THEN SubSeq(s, 1, Len(s) - 1) ELSE s

\* strings.TrimPrefix(path, "/blogs/")
TrimPrefixBlogs(path) ==
  IF HasPrefix(path, BlogsPrefix)
  THEN SubSeq(path, Len(BlogsPrefix) + 1, Len(path)) ELSE path

\* BlogPostHandler.ServeHTTP: the slug is the path without "/blogs/" and
\* without a trailing slash; the post is rendered, or 404 when the API has
\* no such post.
BlogSlug(path) == TrimSuffixSlash(TrimPrefixBlogs(path))

BlogPostRun(path, version, outcome) ==
  IF outcome \in {"page", "large"}
  THEN RenderCalls(<<"post", BlogSlug(path), version>>)
       \o (IF outcome = "large" THEN <<CallWrite(Padding)>> ELSE <<>>)
  ELSE <<CallWriteHeader(StatusNotFound)>> \o RenderCalls(NotFoundBody)

IsBlogPath(path) == HasPrefix(path, BlogsPrefix) /\ Len(path) > Len(BlogsPrefix)

\* The handler the router runs for a path: the handler of the registered
\* route, the blog post handler for /blogs/<slug>, else not-found.
Serve(pathToRoute, path, lang, version, outcome) ==
  IF GetByPath(pathToRoute, path).ok
  THEN HandlerRun(GetByPath(pathToRoute, path), lang, version, outcome)
  ELSE IF IsBlogPath(path)
  THEN BlogPostRun(path, version, outcome)
  ELSE HandlerRun(NoRoute, lang, version, outcome)

\* What a path resolves to: the page of a registered route, a blog post,
\* or nothing.
Resolve(pathToRoute, path) ==
  IF GetByPath(pathToRoute, path).ok
  THEN <<"page", GetByPath(pathToRoute, path).Path>>
  ELSE IF IsBlogPath(path)
  THEN <<"post", BlogSlug(path)>>
  ELSE <<"none", path>>

(* ------------------------- responseRecorder ---------------------------- *)
\* &responseRecorder{body: &bytes.Buffer{}, statusCode: http.StatusOK}
NewRecorder == [statusCode |-> StatusOK, wroteHeader |-> FALSE, body |-> EmptyBody]

\* responseRecorder.WriteHeader
RecWriteHeader(rec, statusCode) ==
  IF ~rec.wroteHeader
  THEN [rec EXCEPT !.statusCode = statusCode, !.wroteHeader = TRUE]
  ELSE rec

\* responseRecorder.Write
RecWrite(rec, b) ==
  [rec EXCEPT !.wroteHeader = TRUE, !.body = rec.body \o b]

\* next.ServeHTTP(rec, r): the handler's calls land on the recorder.
RECURSIVE Record(_, _)
Record(rec, calls) ==
  IF calls = <<>> THEN rec
  ELSE Record(CASE Head(calls).op = "WriteHeader" ->
                     RecWriteHeader(rec, Head(calls).code)
                [] Head(calls).op = "Write" -> RecWrite(rec, Head(calls).b)
                [] Head(calls).op = "Header" -> rec,
              Tail(calls))

\* next.ServeHTTP(w, r): the handler's calls land on the connection, which
\* sends the first status written (200 when none is) and the bytes written.
Direct(calls) ==
  [status |-> Record(NewRecorder, calls).statusCode,
   body |-> Record(NewRecorder, calls).body]

\* The query of a request, as a sequence of its parameters; none here.
NoQuery == <<>>
Queries == {NoQuery, <<"page=1">>, <<"page=2">>}

\* BlogsHandler.ServeHTTP reads page, category, tag and search from the
\* query: what a handler writes is a page for the query of the request.
QueryPage(calls, query) ==
  [i \in DOMAIN calls |->
     IF calls[i].op = "Write" /\ calls[i].b # EmptyBody
     THEN [calls[i] EXCEPT !.b = @ \o query] ELSE calls[i]]

\* The Content-Type a handler's calls leave in the header map of the
\* writer.  The recorder has no Header method of its own, so the calls
\* reach the map of the connection; buffered: the status is written after
\* the handler returned, else a type set after the first WriteHeader or
\* Write comes too late for the response.
RECURSIVE ContentTypeSet(_, _, _)
ContentTypeSet(calls, buffered, cur) ==
  IF calls = <<>> THEN cur
  ELSE IF Head(calls).op = "Header"
  THEN ContentTypeSet(Tail(calls), buffered, Head(calls).v)
  ELSE IF buffered THEN ContentTypeSet(Tail(calls), buffered, cur)
  ELSE cur

\* line 62: the type the middleware sets on a response served from an entry
ContentTypeHit == "text/html; charset=utf-8"

(* --------------------------- cache directory --------------------------- *)
\* The cache directory is a tree of files and directories: a function from
\* the paths below it (sequences of names, <<>> the directory itself) to
\* "file" or "dir".  A directory that does not exist has no paths.
NoDir == [p \in {} |-> "dir"]

\* the names a directory can hold, in the lexical order ReadDir lists them
NameOrder == <<"a", "b", "c">>

\* what a name directly under the cache directory can be
Shapes == {"none", "file", "empty", "one", "two", "deep"}

ShapePaths(n, shape) ==
  CASE shape = "none"  -> {}
    [] shape = "file"  -> {<<n>>}
    [] shape = "empty" -> {<<n>>}
    [] shape = "one"   -> {<<n>>, <<n, "a">>}
    [] shape = "two"   -> {<<n>>, <<n, "a">>, <<n, "b">>}
    [] shape = "deep"  -> {<<n>>, <<n, "a">>, <<n, "a", "a">>}

ShapeKind(p, shape) ==
  IF shape = "file" THEN "file"
  ELSE IF shape = "deep" THEN (IF Len(p) = 3 THEN "file" ELSE "dir")
  ELSE IF Len(p) = 1 THEN "dir" ELSE "file"

\* the cache directory whose three names have the given shapes
MkDir(sa, sb, sc) ==
  LET ps == {<<>>} \cup ShapePaths("a", sa) \cup ShapePaths("b", sb)
                  \cup ShapePaths("c", sc)
      shapeOf(p) == IF p[1] = "a" THEN sa ELSE IF p[1] = "b" THEN sb ELSE sc
  IN  [p \in ps |-> IF p = <<>> THEN "dir" ELSE ShapeKind(p, shapeOf(p))]

CacheDirs == {NoDir} \cup {MkDir(sa, sb, sc) : sa \in Shapes, sb \in Shapes, sc \in Shapes}

Files(fs) == {p \in DOMAIN fs : fs[p] = "file"}

\* os.RemoveAll(path): the path and everything below it are gone
RemoveAll(fs, path) ==
  LET keep == {p \in DOMAIN fs : ~HasPrefix(p, path)}
  IN  [p \in keep |-> fs[p]]

\* the names in a directory, sorted
ReadDirNames(fs, path) ==
  SelectSeq(NameOrder, LAMBDA n : Append(path, n) \in DOMAIN fs)

\* The function the second filepath.Walk of clear-cache is given: an error
\* handed in is returned; the cache directory itself is skipped; anything
\* else is removed.
RemoveWalkFn(fs, path, err) ==
  IF err THEN [fs |-> fs, err |-> TRUE]
  ELSE IF path = <<>> THEN [fs |-> fs, err |-> FALSE]
  ELSE [fs |-> RemoveAll(fs, path), err |-> FALSE]

\* filepath.Walk below a path that Lstat found: a file is handed to the
\* function; a directory is listed, handed to the function, and then each
\* listed name is Lstat-ed and walked.  A name that is gone by then is
\* handed to the function with the Lstat error.  The first error returned
\* by the function ends the walk.
RECURSIVE Walk(_, _), WalkNames(_, _, _)
Walk(fs, path) ==
  IF fs[path] = "file" THEN RemoveWalkFn(fs, path, FALSE)
  ELSE LET names == ReadDirNames(fs, path)
           r == RemoveWalkFn(fs, path, FALSE)
       IN  IF r.err THEN r ELSE WalkNames(r.fs, path, names)

WalkNames(fs, path, names) ==
  IF names = <<>> THEN [fs |-> fs, err |-> FALSE]
  ELSE LET filename == Append(path, Head(names))
           r == IF filename \in DOMAIN fs
                THEN Walk(fs, filename)
                ELSE RemoveWalkFn(fs, filename, TRUE)
       IN  IF r.err THEN r ELSE WalkNames(r.fs, path, Tail(names))

\* The clear-cache command: nothing to do when the directory does not
\* exist; else the files are counted and the directory is walked, removing.
\* Result: the directory afterwards, the count, and whether Run failed.
ClearCache(fs) ==
  IF <<>> \notin DOMAIN fs
  THEN [fs |-> fs, count |-> 0, err |-> FALSE]
  ELSE [fs |-> Walk(fs, <<>>).fs, count |-> Cardinality(Files(fs)),
        err |-> Walk(fs, <<>>).err]

(* ------------- IP ban list, honeypot and rate limiter ------------------ *)
\* Header values and addresses are sequences of symbols: the addresses
\* "ipA" and "ipB", the separators "," and ":", and a port.
IPs == {"ipA", "ipB"}
ForwardedFors == {<<>>, <<"ipA">>, <<"ipA", ",", "ipB">>}
RealIPs == {<<>>, <<"ipB">>}
RemoteAddrs == {<<"ipA", ":", "port">>, <<"ipB", ":", "port">>}

\* the part of s before the first separator sep, s itself when it has none
RECURSIVE BeforeFirst(_, _)
BeforeFirst(s, sep) ==
  IF s = <<>> \/ Head(s) = sep THEN <<>>
  ELSE <<Head(s)>> \o BeforeFirst(Tail(s), sep)

\* the part of s before the last separator sep, s itself when it has none
RECURSIVE BeforeLast(_, _)
BeforeLast(s, sep) ==
  IF \A i \in 1..Len(s) : s[i] # sep THEN s
  ELSE IF s[Len(s)] = sep THEN SubSeq(s, 1, Len(s) - 1)
  ELSE BeforeLast(SubSeq(s, 1, Len(s) - 1), sep)

\* middleware.GetClientIP: X-Forwarded-For up to its first comma, else
\* X-Real-IP, else RemoteAddr without its port.
GetClientIP(r) ==
  IF r.xff # <<>> THEN BeforeFirst(r.xff, ",")
  ELSE IF r.xri # <<>> THEN r.xri
  ELSE BeforeLast(r.remote, ":")

\* the honeypot paths main gives to HoneypotMiddleware (one of them here)
PathAdmin == <<"/", "admin">>
honeypotPaths == {PathAdmin}

\* isStaticAsset: the path starts with one of the static prefixes
AssetsPrefix == <<"/", "assets", "/">>
PathAsset == AssetsPrefix \o <<"x">>
staticPrefixes == {AssetsPrefix}
isStaticAsset(path) == \E prefix \in staticPrefixes : HasPrefix(path, prefix)

GuardPaths == {PathA, PathAdmin, PathAsset}

\* RateLimiterConfig as main builds it: RPS and Burst from the environment,
\* no multiplier and no crawler bypass set.
RateBurst == 1
RateLimiterConfig ==
  [Burst |-> RateBurst, StaticMultiplier |-> 0, CrawlerBypass |-> FALSE]

DefaultStaticMultiplier == 10
staticMultiplier(config) ==
  IF config.StaticMultiplier <= 0 THEN DefaultStaticMultiplier
  ELSE config.StaticMultiplier
staticBurst(config) == config.Burst * staticMultiplier(config)

\* limiter.Allow(): takes a token when the bucket holds one
Allow(tokens) == [ok |-> tokens >= 1, tokens |-> IF tokens >= 1 THEN tokens - 1 ELSE tokens]

StatusForbidden == 403
StatusTooManyRequests == 429

\* The ban list: the map in memory and the entries of the ban file.
NewIPBanList == [banned |-> {}, file |-> {}]

\* IPBanList.save: the file holds the map when the write succeeded; when
\* os.Create failed the file is as it was.
save(bl, written) == [bl EXCEPT !.file = IF written THEN bl.banned ELSE @]

BanIPWhenSaved(bl, ip, written) ==
  IF written THEN save([bl EXCEPT !.banned = @ \cup {ip}], written) ELSE bl

\* IPBanList.BanIP: the map entry is set, then the list is saved
BanIP(bl, ip, written) == save([bl EXCEPT !.banned = @ \cup {ip}], written)

\* IPBanList.UnbanIP: the map entry is deleted, then the list is saved
UnbanIP(bl, ip, written) == save([bl EXCEPT !.banned = @ \ {ip}], written)

IsBanned(bl, ip) == ip \in bl.banned

\* A request as the operational middleware sees it.  bootstrap: it carries
\* X-Internal-Bootstrap: true; crawler: its User-Agent names a crawler of
\* the configuration.
GuardReqs ==
  [path : GuardPaths, xff : ForwardedFors, xri : RealIPs, remote : RemoteAddrs,
   bootstrap : BOOLEAN, crawler : BOOLEAN]

\* The answer of the chain: the status and the middleware that wrote it
\* ("next": the request reached the handlers behind the chain).
GuardAnswer(g, status, by) == [g |-> g, status |-> status, by |-> by]

\* RateLimiter's handler: bypass for bootstrap requests and, when
\* configured, crawlers; else a token of the bucket of the path's class.
RateLimiter(config, g, r) ==
  IF r.bootstrap THEN GuardAnswer(g, StatusOK, "next")
  ELSE IF config.CrawlerBypass /\ r.crawler THEN GuardAnswer(g, StatusOK, "next")
  ELSE IF isStaticAsset(r.path)
  THEN IF Allow(g.static).ok
       THEN GuardAnswer([g EXCEPT !.static = Allow(g.static).tokens], StatusOK, "next")
       ELSE GuardAnswer(g, StatusTooManyRequests, "ratelimit")
  ELSE IF Allow(g.dynamic).ok
       THEN GuardAnswer([g EXCEPT !.dynamic = Allow(g.dynamic).tokens], StatusOK, "next")
       ELSE GuardAnswer(g, StatusTooManyRequests, "ratelimit")

\* HoneypotMiddleware's handler: a honeypot path bans the client IP and is
\* answered 404; the error of BanIP is only logged.
HoneypotMiddleware(config, g, r, written) ==
  IF r.path \in honeypotPaths
  THEN GuardAnswer([g EXCEPT !.list = BanIP(g.list, GetClientIP(r), written)],
                   StatusNotFound, "honeypot")
  ELSE RateLimiter(config, g, r)

\* IPBanMiddleware's handler: 403 for a banned client IP
IPBanMiddleware(config, g, r, written) ==
  IF IsBanned(g.list, GetClientIP(r))
  THEN GuardAnswer(g, StatusForbidden, "ipban")
  ELSE HoneypotMiddleware(config, g, r, written)

\* The state behind the chain: the ban list, the two buckets (full when
\* the limiters are made), the number of requests handled and the last
\* answer: the client IP, path and sentinel header of the request, the
\* status and the middleware that wrote it.
NoAnswer ==
  [ip |-> <<>>, path |-> <<>>, bootstrap |-> FALSE, status |-> 0, by |-> ""]
IdleGuard ==
  [list |-> NewIPBanList, dynamic |-> RateLimiterConfig.Burst,
   static |-> staticBurst(RateLimiterConfig), handled |-> 0, last |-> NoAnswer]

\* no webhook request handled yet
IdleHook ==
  [secret |-> "", method |-> "", decodable |-> FALSE, entity |-> "",
   status |-> 0, invalidated |-> 0]

(* ----------------------------- ViewsCache ------------------------------ *)
\* The view counts are the map a call of the API returned: <<k>> stands for
\* the map returned by the k-th call, <<>> for the empty map.
NoData == <<>>
Fetched(k) == <<k>>

\* time.Time{}: the zero time, before every reading of the clock
ZeroTime == 0
After(t, u) == t > u

\* the ttl the handler is made with, in ticks of the clock
ViewsTTL == 1

\* A call of Get: where it is, the locals it read under the read lock, what
\* it returned; floor: the number of API calls made when the cache was last
\* invalidated before the call began; fetched: it called the API.
IdleCall ==
  [pc |-> "idle", needsRefresh |-> FALSE, currentData |-> NoData,
   floor |-> 0, fetched |-> FALSE, err |-> FALSE, data |-> NoData]

Returned(call, data, err) == [call EXCEPT !.pc = "done", !.data = data, !.err = err]

\* NewViewsCache: an empty map and the zero expiry; mu: the holder of the
\* write lock (0: free); now: the clock; fetches: the API calls made;
\* floor: the API calls made when Invalidate last ran.
NewViewsCache ==
  [data |-> NoData, expiresAt |-> ZeroTime, ttl |-> ViewsTTL, mu |-> 0,
   now |-> 1, fetches |-> 0, floor |-> 0, calls |-> [c \in Reqs |-> IdleCall]]

ViewsInvalidateExpiryOnly(vc) == [vc EXCEPT !.expiresAt = ZeroTime, !.floor = vc.fetches]

\* ViewsCache.Invalidate: a new empty map and the zero expiry
ViewsInvalidate(vc) ==
  [vc EXCEPT !.data = NoData, !.expiresAt = ZeroTime, !.floor = vc.fetches]

\* ViewsCache.Get, lines 34-41: under the read lock the call reads whether
\* the cache has expired and the map; a live, non-empty map is returned.
ViewsGetRead(vc, c) ==
  LET needsRefresh == After(vc.now, vc.expiresAt)
      call == [IdleCall EXCEPT !.needsRefresh = needsRefresh,
                               !.currentData = vc.data, !.floor = vc.floor]
  IN  [vc EXCEPT !.calls[c] =
         IF ~needsRefresh /\ Len(vc.data) > 0
         THEN Returned(call, vc.data, FALSE)
         ELSE [call EXCEPT !.pc = "lock"]]

\* lines 44-50: with the write lock the call checks again
ViewsGetLock(vc, c) ==
  IF ~After(vc.now, vc.expiresAt) /\ Len(vc.data) > 0
  THEN [vc EXCEPT !.calls[c] = Returned(@, vc.data, FALSE)]
  ELSE [vc EXCEPT !.mu = c, !.calls[c].pc = "fetch"]

\* lines 53-68: the API is called; on an error the map held is returned if
\* it is not empty, else the error; on success the map fetched is stored
\* with a new expiry and returned.  The lock is released on return.
ViewsGetFetch(vc, c, ok) ==
  LET call == [vc.calls[c] EXCEPT !.fetched = TRUE]
      made == [vc EXCEPT !.fetches = @ + 1, !.mu = 0]
  IN  IF ~ok
      THEN [made EXCEPT !.calls[c] =
              IF Len(vc.data) > 0 THEN Returned(call, vc.data, FALSE)
              ELSE Returned(call, NoData, TRUE)]
      ELSE [made EXCEPT !.data = Fetched(made.fetches),
                        !.expiresAt = vc.now + vc.ttl,
                        !.calls[c] = Returned(call, Fetched(made.fetches), FALSE)]

IdleViews == NewViewsCache

(* ------------------------- webhook requests ---------------------------- *)
\* The secret the middleware is configured with, and the values of the
\* X-Webhook-Secret header ("": no header).
webhookSecret == "right"
ProvidedSecrets == {"", "wrong", webhookSecret}

\* WebhookPayload: the fields of a decodable body
Events == {"post.updated", "post.deleted"}
Actions == {"update", "delete"}
Slugs == {"x", "y"}
Ids == {1, 2}
Payloads ==
  [event : Events, entity : Entities, id : Ids, slug : Slugs, action : Actions]

\* what the decoder leaves in the payload when the body is not JSON
NoPayload == [event |-> "", entity |-> "", id |-> 0, slug |-> "", action |-> ""]

\* A webhook request: the header, the method, and the body, decodable or not
HookReq(secret, method, decodable, payload) ==
  [secret |-> secret, method |-> method, decodable |-> decodable,
   payload |-> payload]

StatusUnauthorized == 401
StatusMethodNotAllowed == 405
StatusBadRequest == 400

\* Manager.MarkStale and Manager.MarkAllStale return the number of entries
\* touched.
MarkStaleCount(idx, strategy) ==
  Cardinality({k \in DOMAIN idx : idx[k].strategy = strategy})
MarkAllStaleCount(idx) == Cardinality(DOMAIN idx)

(* ----------------------------- ViewTracker ----------------------------- *)
\* Time is counted in ticks of five minutes.
viewCooldown == 2
cleanupInterval == 1

\* net.SplitHostPort(addr): the host of "host:port", an error otherwise
HasPort(addr) == \E i \in 1..Len(addr) : addr[i] = ":"

\* services.getClientIP: the whole X-Forwarded-For value (without a port it
\* may carry), else X-Real-IP, else RemoteAddr without its port
getClientIP(r) ==
  IF r.xff # <<>> THEN (IF HasPort(r.xff) THEN BeforeLast(r.xff, ":") ELSE r.xff)
  ELSE IF r.xri # <<>> THEN (IF HasPort(r.xri) THEN BeforeLast(r.xri, ":") ELSE r.xri)
  ELSE IF HasPort(r.remote) THEN BeforeLast(r.remote, ":") ELSE r.remote

\* key := ip + ":" + slug
ViewKey(ip, slug) == ip \o <<":">> \o slug

\* ViewTrackingMiddleware: a goroutine calls ShouldTrackView for a path
\* under /blogs/ with a slug
TracksViews(path) ==
  HasPrefix(path, BlogsPrefix) /\ TrimSuffixSlash(TrimPrefixBlogs(path)) # <<>>

\* A goroutine of the middleware: the key it computed, what it read under
\* the read lock, and what ShouldTrackView returned.
IdleTrack ==
  [pc |-> "idle", key |-> <<>>, exists |-> FALSE, lastView |-> 0, result |-> FALSE]

\* NewViewTracker: an empty map; now: the clock; calls: the goroutines
\* started so far; tracked: the TrackView calls made to the API, each with
\* its key and time.
NewViewTracker ==
  [views |-> [k \in {} |-> 0], now |-> 0, calls |-> [g \in {} |-> IdleTrack],
   tracked |-> <<>>]

\* ShouldTrackView, lines 45-55: the key, and the entry read under the read
\* lock
TrackRead(vt, g, r) ==
  LET key == ViewKey(getClientIP(r), TrimSuffixSlash(TrimPrefixBlogs(r.path)))
      exists == key \in DOMAIN vt.views
      call == IF getClientIP(r) = <<>> THEN [IdleTrack EXCEPT !.pc = "done"]
              ELSE [IdleTrack EXCEPT !.pc = "read", !.key = key, !.exists = exists,
                                     !.lastView = IF exists THEN vt.views[key] ELSE 0]
  IN  [vt EXCEPT !.calls = [h \in DOMAIN vt.calls \cup {g} |->
                              IF h = g THEN call ELSE vt.calls[h]]]

\* lines 57-65: within the cooldown of the entry read, false
InCooldown(call, now) == call.exists /\ now - call.lastView < viewCooldown

\* lines 57-72: false within the cooldown of the entry read; else the view
\* is marked under the write lock and true is returned, on which the
\* goroutine calls TrackView.
TrackMark(vt, g) ==
  LET call == vt.calls[g]
  IN  IF InCooldown(call, vt.now)
      THEN [vt EXCEPT !.calls[g].pc = "done", !.calls[g].result = FALSE]
      ELSE [vt EXCEPT
              !.views = [k \in DOMAIN vt.views \cup {call.key} |->
                           IF k = call.key THEN vt.now ELSE vt.views[k]],
              !.calls[g].pc = "done", !.calls[g].result = TRUE,
              !.tracked = Append(@, [key |-> call.key, at |-> vt.now])]

\* cleanup: the entries older than the cooldown are deleted
cleanup(vt) ==
  [vt EXCEPT !.views =
     [k \in {k2 \in DOMAIN vt.views : ~(vt.views[k2] < vt.now - viewCooldown)} |->
        vt.views[k]]]

IdleTracker == NewViewTracker

(* ------------------------------- Client -------------------------------- *)
\* Time is counted in ticks of one second.
MaxRetriesMax == 3

\* client.Config: MaxRetries, RetryWaitMin, RetryWaitMax (DefaultConfig: 3,
\* one second, thirty seconds)
Configs == [MaxRetries : 0..MaxRetriesMax, RetryWaitMin : {1, 2}, RetryWaitMax : {1, 3}]

\* What c.httpClient.Do returns: a transport error (no response) or a
\* response with a status
NilResp == 0
Statuses == {200, 404, 500, 503}
DoOutcomes == [err : {TRUE}, status : {NilResp}] \cup [err : {FALSE}, status : Statuses]

\* wait := RetryWaitMin * (1 << (attempt-1)), at most RetryWaitMax
Backoff(config, attempt) ==
  LET wait == config.RetryWaitMin * 2^(attempt - 1)
  IN  IF wait > config.RetryWaitMax THEN config.RetryWaitMax ELSE wait

\* the retry loop ends early breaking at every status below 400 only
BreaksBelow400(lastErr, status) == ~lastErr /\ status < 400

\* lastErr == nil && resp.StatusCode < 500: the retry loop ends
Breaks(lastErr, status) == ~lastErr /\ status < 500

\* doJSON after the loop: the error it returns
Returns(lastErr, status, decoded) ==
  IF lastErr THEN "request failed"
  ELSE IF status >= 400 THEN "HTTPError"
  ELSE IF ~decoded THEN "failed to decode"
  ELSE "nil"

\* A call of doJSON: its position, the loop variable attempt, the number of
\* calls of httpClient.Do made, the backoff wait and what is left of it,
\* which case of the select woke the call, whether the context is done,
\* lastErr and the status of resp, and the error returned.
NewCall(config) ==
  [config |-> config, pc |-> "loop", attempt |-> 0, attempts |-> 0,
   wait |-> 0, remaining |-> 0, woken |-> "none", cancelled |-> FALSE,
   lastErr |-> FALSE, status |-> NilResp, result |-> "none"]

\* the loop condition and, for a retry, the backoff and the select
LoopHead(c) ==
  IF ~(c.attempt <= c.config.MaxRetries) THEN [c EXCEPT !.pc = "after"]
  ELSE IF c.attempt > 0
  THEN LET wait == Backoff(c.config, c.attempt)
       IN  [c EXCEPT !.pc = "wait", !.wait = wait, !.remaining = wait,
                     !.woken = IF c.cancelled THEN "done" ELSE "none"]
  ELSE [c EXCEPT !.pc = "do"]

\* select: ctx.Done() returns ctx.Err(), time.After(wait) goes on
Select(c) ==
  IF c.woken = "done" THEN [c EXCEPT !.pc = "returned", !.result = "ctx.Err"]
  ELSE [c EXCEPT !.pc = "do"]

\* resp, lastErr = c.httpClient.Do(req), break or attempt++
Do(c, outcome) ==
  [c EXCEPT !.attempts = @ + 1, !.lastErr = outcome.err, !.status = outcome.status,
            !.pc = IF Breaks(outcome.err, outcome.status) THEN "after" ELSE "loop",
            !.attempt = IF Breaks(outcome.err, outcome.status) THEN @ ELSE @ + 1]

\* no call of doJSON is in progress
IdleClient == <<>>

(* ------------------------------ state ---------------------------------- *)
VARIABLES
  registry,   \* Registry.pathToRoute, filled when the routes are loaded
  index,      \* the cache manager's entries, by key
  content,    \* version of the site content the handlers render
  reqs,       \* the requests, by slot: in flight, or answered
  disk,       \* the cache directory, and the result of clear-cache once run
  guard,      \* the IP ban list, its file and the rate limiters' buckets
  tracker,    \* the view tracker's map and the goroutines calling it
  views,      \* the views cache and the calls of its Get
  client,     \* a doJSON call of the HTTP client: its loop and context
  hook        \* the answer to the last webhook request

vars == <<registry, index, content, reqs, disk, guard, tracker, views, client, hook>>

\* the cache directory as given to the command, before it has run
DiskOf(fs) == [fs |-> fs, ran |-> FALSE, count |-> 0, err |-> FALSE]

NoHeader == ""
NoETag == <<>>

Response(status, body, xcache, etag, cc) ==
  [status |-> status, body |-> body, xcache |-> xcache, etag |-> etag, cc |-> cc]

NoResponse == Response(0, EmptyBody, NoHeader, NoETag, NoHeader)

\* A slot: the request's method, path, query and language, the If-None-Match value
\* and the entry the middleware read, its recorder, and for an answered
\* request (pc = "done") the response.  ran: the origin handler ran for it;
\* stored: Set returned nil; ctype: the Content-Type in the header map of
\* the response.
IdleReq ==
  [pc |-> "idle", method |-> "", path |-> <<>>, query |-> NoQuery, lang |-> "",
   inm |-> <<>>,
   looked |-> FALSE, entry |-> NoEntry, decompErr |-> FALSE,
   rec |-> NewRecorder, ran |-> FALSE, stored |-> FALSE, resp |-> NoResponse,
   ctype |-> NoHeader]

Answered(q, resp) == [q EXCEPT !.pc = "done", !.resp = resp]

Ctx(path) == CanonicalPathMiddleware(registry, path)

CacheKeyWithQuery(canonical, lang, query) == GetCacheKey(canonical \o query, lang)

\* line 36: cache.GetCacheKey(canonical, lang, nil); the query of the
\* request is not handed over
CacheKeyOf(canonical, lang, query) == GetCacheKey(canonical, lang)

KeyOf(q) == CacheKeyOf(Ctx(q.path).canonical, q.lang, q.query)

InitWith(tables) ==
  /\ \E defs \in tables : registry = LoadRoutes(defs)
  /\ index = [k \in {} |-> NoEntry]
  /\ content = 1
  /\ reqs = [r \in Reqs |-> IdleReq]
  /\ disk = DiskOf(MkDir("none", "none", "none"))
  /\ guard = IdleGuard
  /\ tracker = IdleTracker
  /\ views = IdleViews
  /\ client = IdleClient
  /\ hook = IdleHook

(* ----------------------- CacheMiddleware ------------------------------- *)
PassThroughMethodNever(method) == FALSE

\* line 20: only GET requests reach the cache
PassThroughMethod(method) == method # "GET"

ServeCachedAlsoStale(entry) == entry.found

\* line 40: the entry is served when it is found and not stale
ServeCached(entry) == entry.found /\ ~IsStale(entry)

\* line 72: strategies whose responses are not captured
Uncached(strategy) == strategy = "" \/ strategy = "dynamic"

\* A request arrives and runs the middleware up to its call of the inner
\* handler, or to the response it serves from the cache.
BeginWith(r, method, path, query, lang, shape) ==
  /\ reqs[r].pc \in {"idle", "done"}
  /\ LET ctx == Ctx(path)
         q0 == [IdleReq EXCEPT !.method = method, !.path = path,
                               !.query = query, !.lang = lang]
         key == CacheKeyOf(ctx.canonical, lang, query)
         entry == Get(index, key)
         q1 == [q0 EXCEPT !.looked = TRUE, !.entry = entry]
         etag == WeakETag(entry.ETag)
         q2 == [q1 EXCEPT !.inm = IfNoneMatch(shape, etag, OtherETag)]
         got == GetDecompressedContent(entry)
     IN  reqs' = [reqs EXCEPT ![r] =
           IF PassThroughMethod(method) \/ ctx.canonical = <<>>
           THEN [q0 EXCEPT !.pc = "pass"]
           ELSE IF ServeCached(entry)
           THEN IF etagMatch(q2.inm, etag)
                THEN Answered(q2, Response(StatusNotModified, EmptyBody,
                                           NoHeader, etag, "no-cache"))
                ELSE IF got.err
                THEN [q2 EXCEPT !.pc = "pass", !.decompErr = TRUE]
                ELSE Answered([q2 EXCEPT !.ctype = ContentTypeHit],
                              Response(StatusOK, got.content,
                                       "HIT", etag, "no-cache"))
           ELSE IF Uncached(ctx.strategy)
           THEN [q1 EXCEPT !.pc = "pass"]
           ELSE [q1 EXCEPT !.pc = "record"]]
  /\ UNCHANGED <<registry, index, content, disk, guard, tracker, views, client, hook>>

\* A request without a query
Begin(r, method, path, lang, shape) == BeginWith(r, method, path, NoQuery, lang, shape)

\* The inner handler runs for a request handed through: its response goes
\* to the client as written.
HandlePassed(r, outcome) ==
  /\ reqs[r].pc = "pass"
  /\ LET calls == QueryPage(Serve(registry, reqs[r].path, reqs[r].lang, content,
                                  outcome), reqs[r].query)
     IN  reqs' = [reqs EXCEPT ![r] =
           Answered([reqs[r] EXCEPT !.ran = TRUE,
                                    !.ctype = ContentTypeSet(calls, FALSE, NoHeader)],
                    Response(Direct(calls).status, Direct(calls).body,
                             NoHeader, NoETag, NoHeader))]
  /\ UNCHANGED <<registry, index, content, disk, guard, tracker, views, client, hook>>

\* line 86: the inner handler runs into the recorder.
HandleRecorded(r, outcome) ==
  /\ reqs[r].pc = "record"
  /\ LET calls == QueryPage(Serve(registry, reqs[r].path, reqs[r].lang, content,
                                  outcome), reqs[r].query)
     IN  reqs' = [reqs EXCEPT ![r].rec = Record(NewRecorder, calls),
                              ![r].ran = TRUE,
                              ![r].ctype = ContentTypeSet(calls, TRUE, NoHeader),
                              ![r].pc = "captured"]
  /\ UNCHANGED <<registry, index, content, disk, guard, tracker, views, client, hook>>

StorableAnyStatus(rec) == TRUE

\* line 89: only a captured response with status 200 is handed to Set
Storable(rec) == rec.statusCode = StatusOK

StoreOnlyNew(r) ==
  /\ reqs[r].pc = "captured"
  /\ IF Storable(reqs[r].rec)
     THEN \/ /\ index' = IF Get(index, KeyOf(reqs[r])).found THEN index
                          ELSE Set(index, KeyOf(reqs[r]), reqs[r].rec.body,
                                   Ctx(reqs[r].path).strategy, reqs[r].path)
             /\ reqs' = [reqs EXCEPT ![r].pc = "stored", ![r].stored = TRUE]
          \/ /\ reqs' = [reqs EXCEPT ![r].pc = "write"]
             /\ UNCHANGED index
     ELSE /\ reqs' = [reqs EXCEPT ![r].pc = "write"]
          /\ UNCHANGED index
  /\ UNCHANGED <<registry, content, disk, guard, tracker, views, client, hook>>

\* lines 89-103: a captured 200 response is stored; Set may fail.
Store(r) ==
  /\ reqs[r].pc = "captured"
  /\ IF Storable(reqs[r].rec)
     THEN \/ /\ index' = Set(index, KeyOf(reqs[r]), reqs[r].rec.body,
                             Ctx(reqs[r].path).strategy, reqs[r].path)
             /\ reqs' = [reqs EXCEPT ![r].pc = "stored", ![r].stored = TRUE]
          \/ /\ reqs' = [reqs EXCEPT ![r].pc = "write"]
             /\ UNCHANGED index
     ELSE /\ reqs' = [reqs EXCEPT ![r].pc = "write"]
          /\ UNCHANGED index
  /\ UNCHANGED <<registry, content, disk, guard, tracker, views, client, hook>>

FinishFailsUnstored(r) ==
  /\ reqs[r].pc \in {"stored", "write"}
  /\ LET q == reqs[r]
         cachedEntry == Get(index, KeyOf(q))
         tagged == q.pc = "stored" /\ cachedEntry.found
         failed == q.pc = "write" /\ Storable(q.rec)
     IN  reqs' = [reqs EXCEPT ![r] =
           Answered(q, Response(
                      IF failed THEN StatusInternalServerError ELSE q.rec.statusCode,
                      IF failed THEN EmptyBody ELSE q.rec.body, NoHeader,
                      IF tagged THEN WeakETag(cachedEntry.ETag) ELSE NoETag,
                      IF tagged THEN "no-cache" ELSE NoHeader))]
  /\ UNCHANGED <<registry, index, content, disk, guard, tracker, views, client, hook>>

\* lines 104-114: after a store the ETag of the entry now in the index is
\* set; then the buffered response is written.
Finish(r) ==
  /\ reqs[r].pc \in {"stored", "write"}
  /\ LET q == reqs[r]
         cachedEntry == Get(index, KeyOf(q))
         tagged == q.pc = "stored" /\ cachedEntry.found
     IN  reqs' = [reqs EXCEPT ![r] =
           Answered(q, Response(q.rec.statusCode, q.rec.body, NoHeader,
                      IF tagged THEN WeakETag(cachedEntry.ETag) ELSE NoETag,
                      IF tagged THEN "no-cache" ELSE NoHeader))]
  /\ UNCHANGED <<registry, index, content, disk, guard, tracker, views, client, hook>>

(* ------------------------- WebhookHandler ------------------------------ *)
InvalidateAllOnAny(idx, entity) ==
  IF entity \in {"post", "category", "tag", "author", "keyvalue", "cms"}
  THEN MarkAllStale(idx) ELSE idx

InvalidateStaticOnAny(idx, entity) ==
  IF entity \in {"post", "category", "tag", "author", "keyvalue", "cms"}
  THEN MarkStale(idx, "static") ELSE idx

\* WebhookHandler.Handle, the switch on payload.Entity.
Invalidate(idx, entity) ==
  IF entity \in {"post", "category", "tag", "author"} THEN MarkStale(idx, "static")
  ELSE IF entity \in {"keyvalue", "cms"} THEN MarkAllStale(idx)
  ELSE idx

\* lines 69-72 and 97-99: a post or cms webhook also invalidates the views
\* cache
InvalidatesViews(entity) == entity \in {"post", "cms"}

InvalidateViews(vc, entity) ==
  IF InvalidatesViews(entity) THEN ViewsInvalidate(vc) ELSE vc

\* An authenticated webhook POST for an entity; the handler waits for the
\* lock of the views cache when it is to invalidate it.
Webhook(entity) ==
  /\ InvalidatesViews(entity) => views.mu = 0
  /\ index' = Invalidate(index, entity)
  /\ views' = InvalidateViews(views, entity)
  /\ UNCHANGED <<registry, content, reqs, disk, guard, tracker, client, hook>>

\* the count the switch leaves in invalidated
InvalidatedCount(idx, entity) ==
  IF entity \in {"post", "category", "tag", "author"} THEN MarkStaleCount(idx, "static")
  ELSE IF entity \in {"keyvalue", "cms"} THEN MarkAllStaleCount(idx)
  ELSE 0

\* The answer to a webhook request and the state it leaves.
HookAnswer(idx, vc, status, invalidated) ==
  [index |-> idx, views |-> vc, status |-> status, invalidated |-> invalidated]

HandleByEvent(idx, vc, req) ==
  IF req.method # "POST" THEN HookAnswer(idx, vc, StatusMethodNotAllowed, 0)
  ELSE IF ~req.decodable THEN HookAnswer(idx, vc, StatusBadRequest, 0)
  ELSE IF req.payload.event = "post.deleted"
  THEN HookAnswer(MarkAllStale(idx), vc, StatusOK, MarkAllStaleCount(idx))
  ELSE HookAnswer(Invalidate(idx, req.payload.entity),
                  InvalidateViews(vc, req.payload.entity), StatusOK,
                  InvalidatedCount(idx, req.payload.entity))

\* WebhookHandler.Handle: 405 unless POST, 400 when the body does not
\* decode, else the switch on the entity and a success answer with the
\* count.
Handle(idx, vc, req) ==
  IF req.method # "POST" THEN HookAnswer(idx, vc, StatusMethodNotAllowed, 0)
  ELSE IF ~req.decodable THEN HookAnswer(idx, vc, StatusBadRequest, 0)
  ELSE HookAnswer(Invalidate(idx, req.payload.entity),
                  InvalidateViews(vc, req.payload.entity), StatusOK,
                  InvalidatedCount(idx, req.payload.entity))

WebhookAuthAnySecret(secret, idx, vc, req) ==
  IF req.secret = "" THEN HookAnswer(idx, vc, StatusUnauthorized, 0)
  ELSE Handle(idx, vc, req)

\* WebhookAuth: 401 without the header or with another secret, else the
\* handler
WebhookAuth(secret, idx, vc, req) ==
  IF req.secret = "" THEN HookAnswer(idx, vc, StatusUnauthorized, 0)
  ELSE IF req.secret # secret THEN HookAnswer(idx, vc, StatusUnauthorized, 0)
  ELSE Handle(idx, vc, req)

\* A webhook request is handled by WebhookAuth and the handler behind it,
\* which waits for the lock of the views cache where it invalidates it.
\* hook keeps what the log lines of the two keep of the request, and the
\* answer.
WebhookRequest(req) ==
  LET a == WebhookAuth(webhookSecret, index, views, req)
  IN  /\ a.views # views => views.mu = 0
      /\ index' = a.index
      /\ views' = a.views
      /\ hook' = [secret |-> req.secret, method |-> req.method,
                  decodable |-> req.decodable, entity |-> req.payload.entity,
                  status |-> a.status, invalidated |-> a.invalidated]
      /\ UNCHANGED <<registry, content, reqs, disk, guard, tracker, client>>

(* --------------------------- environment ------------------------------- *)
\* The site content changes: handlers render something new from now on.
UpdateContent ==
  /\ content < MaxVersion
  /\ content' = content + 1
  /\ UNCHANGED <<registry, index, reqs, disk, guard, tracker, views, client, hook>>

\* The stored payload of an entry becomes unreadable.
CorruptEntry(key) ==
  /\ key \in DOMAIN index
  /\ index[key].readable
  /\ index' = [index EXCEPT ![key].readable = FALSE]
  /\ UNCHANGED <<registry, content, reqs, disk, guard, tracker, views, client, hook>>

(* ------------------------- clear-cache command ------------------------- *)
\* The command's Run, on the cache directory as it is.
ClearCacheCommand ==
  /\ ~disk.ran
  /\ LET res == ClearCache(disk.fs)
     IN  disk' = [fs |-> res.fs, ran |-> TRUE, count |-> res.count,
                  err |-> res.err]
  /\ UNCHANGED <<registry, index, content, reqs, guard, tracker, views, client, hook>>

(* --------------------- operational middleware -------------------------- *)
MaxHandled == 3
ClientIPs == {<<ip>> : ip \in IPs}

\* One request through IPBanMiddleware, HoneypotMiddleware and RateLimiter,
\* in the order main installs them.  written: the ban file could be written.
Chain(g, r, written) ==
  LET a == IPBanMiddleware(RateLimiterConfig, g, r, written)
  IN  [a.g EXCEPT !.handled = @ + 1,
                  !.last = [ip |-> GetClientIP(r), path |-> r.path,
                            bootstrap |-> r.bootstrap,
                            status |-> a.status, by |-> a.by]]

GuardRequest(r, written) ==
  /\ guard.handled < MaxHandled
  /\ guard' = Chain(guard, r, written)
  /\ UNCHANGED <<registry, index, content, reqs, disk, tracker, views, client, hook>>

\* A call of IPBanList.UnbanIP
Unban(ip, written) ==
  /\ guard' = [guard EXCEPT !.list = UnbanIP(guard.list, ip, written)]
  /\ UNCHANGED <<registry, index, content, reqs, disk, tracker, views, client, hook>>

\* Time passes: a bucket that is not full gains a token
Refill(bucket) ==
  /\ \/ bucket = "dynamic" /\ guard.dynamic < RateLimiterConfig.Burst
        /\ guard' = [guard EXCEPT !.dynamic = @ + 1]
     \/ bucket = "static" /\ guard.static < staticBurst(RateLimiterConfig)
        /\ guard' = [guard EXCEPT !.static = @ + 1]
  /\ UNCHANGED <<registry, index, content, reqs, disk, tracker, views, client, hook>>

(* --------------------------- views cache ------------------------------- *)
MaxFetches == 3
MaxNow == 2

\* A call of ViewsCache.Get begins and reads under the read lock, which it
\* gets when no call holds the write lock.
GetBegin(c) ==
  /\ views.calls[c].pc \in {"idle", "done"}
  /\ views.mu = 0
  /\ views' = ViewsGetRead(views, c)
  /\ UNCHANGED <<registry, index, content, reqs, disk, guard, tracker, client, hook>>

\* The call gets the write lock
GetLock(c) ==
  /\ views.calls[c].pc = "lock"
  /\ views.mu = 0
  /\ views' = ViewsGetLock(views, c)
  /\ UNCHANGED <<registry, index, content, reqs, disk, guard, tracker, client, hook>>

\* The API call of the call returns
GetFetch(c, ok) ==
  /\ views.calls[c].pc = "fetch"
  /\ views.fetches < MaxFetches
  /\ views' = ViewsGetFetch(views, c, ok)
  /\ UNCHANGED <<registry, index, content, reqs, disk, guard, tracker, client, hook>>

\* The clock advances
Tick ==
  /\ views.now < MaxNow
  /\ views' = [views EXCEPT !.now = @ + 1]
  /\ UNCHANGED <<registry, index, content, reqs, disk, guard, tracker, client, hook>>

(* --------------------------- view tracking ----------------------------- *)
MaxTracked == 2
MaxClock == 3

\* The middleware starts a goroutine for a blog post request; the goroutine
\* reads the entry of its key.
TrackBegin(g, r) ==
  /\ g \in DOMAIN tracker.calls => tracker.calls[g].pc = "done"
  /\ TracksViews(r.path)
  /\ Len(tracker.tracked) < MaxTracked
  /\ tracker' = TrackRead(tracker, g, r)
  /\ UNCHANGED <<registry, index, content, reqs, disk, guard, views, client, hook>>

\* The goroutine decides and, outside the cooldown, marks the view
TrackEnd(g) ==
  /\ g \in DOMAIN tracker.calls
  /\ tracker.calls[g].pc = "read"
  /\ tracker' = TrackMark(tracker, g)
  /\ UNCHANGED <<registry, index, content, reqs, disk, guard, views, client, hook>>

\* Five minutes pass; the cleanup timer fires
TrackTick ==
  /\ tracker.now < MaxClock
  /\ tracker' = cleanup([tracker EXCEPT !.now = @ + cleanupInterval])
  /\ UNCHANGED <<registry, index, content, reqs, disk, guard, views, client, hook>>

(* ------------------------------ doJSON --------------------------------- *)
ClientRest == <<registry, index, content, reqs, disk, guard, tracker, views, hook>>

\* for attempt := 0; attempt <= MaxRetries: the next round, or the end
ClientLoop ==
  /\ client.pc = "loop"
  /\ client' = LoopHead(client)
  /\ UNCHANGED ClientRest

\* a second of the backoff passes; the timer fires when none is left and
\* the context is not done yet
ClientTick ==
  /\ client.pc = "wait"
  /\ client.woken = "none"
  /\ client' = IF client.remaining > 1
               THEN [client EXCEPT !.remaining = @ - 1]
               ELSE [client EXCEPT !.remaining = 0, !.woken = "timer"]
  /\ UNCHANGED ClientRest

\* the select goes on with the case that woke it
ClientSelect ==
  /\ client.pc = "wait"
  /\ client.woken # "none"
  /\ client' = Select(client)
  /\ UNCHANGED ClientRest

\* one attempt; with the context done the transport returns its error
ClientDo(outcome) ==
  /\ client.pc = "do"
  /\ client.cancelled => outcome.err
  /\ client' = Do(client, outcome)
  /\ UNCHANGED ClientRest

\* after the loop: the error, the HTTPError or the decoded result
ClientAfter(decoded) ==
  /\ client.pc = "after"
  /\ client' = [client EXCEPT !.pc = "returned",
                              !.result = Returns(client.lastErr, client.status, decoded)]
  /\ UNCHANGED ClientRest

\* the caller cancels the context; a call waiting in the select wakes
ClientCancel ==
  /\ ~client.cancelled
  /\ client.pc # "returned"
  /\ client' = [client EXCEPT !.cancelled = TRUE,
                              !.woken = IF client.pc = "wait" /\ @ = "none" THEN "done" ELSE @]
  /\ UNCHANGED ClientRest

(* ------------------------- specifications ------------------------------ *)
\* Spec: the server under sequential load (one request at a time), over
\* every route table, method, path, header shape and handler outcome, with
\* webhooks, content changes and unreadable payloads.
Init == InitWith(RouteTables)

\* The If-None-Match headers to tell apart for a request: a request that is
\* passed through has its header read by nobody.
ShapesOf(method, path) ==
  IF PassThroughMethod(method) \/ Ctx(path).canonical = <<>>
  THEN {"absent"} ELSE HeaderShapes

Next ==
  \/ \E method \in Methods, path \in ReqPaths, lang \in Languages :
       \E shape \in ShapesOf(method, path) : Begin(1, method, path, lang, shape)
  \/ \E outcome \in Outcomes : HandlePassed(1, outcome)
  \/ \E outcome \in Outcomes : HandleRecorded(1, outcome)
  \/ Store(1)
  \/ Finish(1)
  \/ \E entity \in Entities : Webhook(entity)
  \/ UpdateContent
  \/ \E key \in DOMAIN index : CorruptEntry(key)

Spec == Init /\ [][Next]_vars

\* SpecConc: GET requests for the page /a processed concurrently, while the
\* content changes.
InitConc == InitWith(PageTables)

NextConc ==
  \/ \E r \in Reqs, lang \in Languages, shape \in {"absent", "exact"} :
       Begin(r, "GET", PathA, lang, shape)
  \/ \E r \in Reqs, outcome \in {"page", "error"} : HandleRecorded(r, outcome)
  \/ \E r \in Reqs : Store(r)
  \/ \E r \in Reqs : Finish(r)
  \/ UpdateContent

SpecConc == InitConc /\ [][NextConc]_vars

\* SpecEdge: GET requests, one at a time, for a static page /a and an
\* incremental page /b by either of their URLs and for a blog post by
\* either of its URLs, with handlers that may write more than the buffer
\* cap, and webhooks; the content does not change.
PathASlash == Append(PathA, "/")
BlogX == BlogsPrefix \o <<"x">>
BlogXSlash == Append(BlogX, "/")
EdgePaths == {PathA, PathASlash, PathB, BlogX, BlogXSlash}

EdgeTables ==
  { <<RouteDefinition(PathA, PathA, "static"),
      RouteDefinition(PathB, PathB, "incremental")>> }

InitEdge == InitWith(EdgeTables)

NextEdge ==
  \/ \E path \in EdgePaths, lang \in Languages : Begin(1, "GET", path, lang, "absent")
  \/ \E outcome \in {"page", "large"} : HandleRecorded(1, outcome)
  \/ Store(1)
  \/ Finish(1)
  \/ \E entity \in Entities : Webhook(entity)

SpecEdge == InitEdge /\ [][NextEdge]_vars

\* SpecClear: the clear-cache command run once on a cache directory of any
\* of the bounded contents; the command is a process of its own, with no
\* routes loaded and no requests.
InitClear ==
  /\ registry = NewRegistry
  /\ index = [k \in {} |-> NoEntry]
  /\ content = 1
  /\ reqs = [r \in Reqs |-> IdleReq]
  /\ \E fs \in CacheDirs : disk = DiskOf(fs)
  /\ guard = IdleGuard
  /\ tracker = IdleTracker
  /\ views = IdleViews
  /\ client = IdleClient
  /\ hook = IdleHook

NextClear == ClearCacheCommand

SpecClear == InitClear /\ [][NextClear]_vars

\* The other parts of the server at rest.
AtRest ==
  /\ registry = NewRegistry
  /\ index = [k \in {} |-> NoEntry]
  /\ content = 1
  /\ reqs = [r \in Reqs |-> IdleReq]
  /\ disk = DiskOf(MkDir("none", "none", "none"))

\* SpecGuard: requests of any path, address headers and sentinel header
\* through the ban, honeypot and rate-limit middleware, with unbans and
\* the buckets refilling.
InitGuard ==
  /\ AtRest
  /\ guard = IdleGuard
  /\ tracker = IdleTracker
  /\ views = IdleViews
  /\ client = IdleClient
  /\ hook = IdleHook

NextGuard ==
  \/ \E r \in GuardReqs, written \in BOOLEAN : GuardRequest(r, written)
  \/ \E ip \in ClientIPs, written \in BOOLEAN : Unban(ip, written)
  \/ \E bucket \in {"dynamic", "static"} : Refill(bucket)

SpecGuard == InitGuard /\ [][NextGuard]_vars

\* SpecViews: concurrent calls of ViewsCache.Get, whose API calls succeed
\* or fail, while the clock advances and webhooks arrive.
InitViews ==
  /\ AtRest
  /\ guard = IdleGuard
  /\ tracker = IdleTracker
  /\ views = NewViewsCache
  /\ client = IdleClient
  /\ hook = IdleHook

NextViews ==
  \/ \E c \in Reqs : GetBegin(c)
  \/ \E c \in Reqs : GetLock(c)
  \/ \E c \in Reqs, ok \in BOOLEAN : GetFetch(c, ok)
  \/ Tick
  \/ \E entity \in Entities : Webhook(entity)

SpecViews == InitViews /\ [][NextViews]_vars

\* SpecHook: webhook requests with any header, method and body, on a cache
\* that GETs for a static and an incremental page fill and a views cache
\* that is empty or holds the counts a first call of Get fetched.
VariantPayloads ==
  {p \in Payloads :
     /\ p.entity \in {"post", "tag", "cms", "unknown"}
     /\ \/ p.event = "post.updated" /\ p.id = 1 /\ p.slug = "x" /\ p.action = "update"
        \/ p.event = "post.deleted" /\ p.id = 2 /\ p.slug = "y" /\ p.action = "delete"}

HookReqs ==
  {HookReq(secret, method, TRUE, p) :
     secret \in ProvidedSecrets, method \in Methods, p \in VariantPayloads}
  \cup {HookReq(secret, method, FALSE, NoPayload) :
     secret \in ProvidedSecrets, method \in Methods}

FilledViewsCache ==
  ViewsGetFetch(ViewsGetLock(ViewsGetRead(NewViewsCache, 1), 1), 1, TRUE)

InitHook ==
  /\ \E defs \in EdgeTables : registry = LoadRoutes(defs)
  /\ index = [k \in {} |-> NoEntry]
  /\ content = 1
  /\ reqs = [r \in Reqs |-> IdleReq]
  /\ disk = DiskOf(MkDir("none", "none", "none"))
  /\ guard = IdleGuard
  /\ tracker = IdleTracker
  /\ views \in {NewViewsCache, FilledViewsCache}
  /\ client = IdleClient
  /\ hook = IdleHook

NextHook ==
  \/ \E path \in {PathA, PathB}, lang \in Languages : Begin(1, "GET", path, lang, "absent")
  \/ HandleRecorded(1, "page")
  \/ Store(1)
  \/ Finish(1)
  \/ \E req \in HookReqs : WebhookRequest(req)

SpecHook == InitHook /\ [][NextHook]_vars

\* SpecPayload: authenticated webhook POSTs with every payload, on a cache
\* that GETs for a static and an incremental page fill.
InitPayload == InitWith(EdgeTables)

NextPayload ==
  \/ \E path \in {PathA, PathB}, lang \in Languages : Begin(1, "GET", path, lang, "absent")
  \/ HandleRecorded(1, "page")
  \/ Store(1)
  \/ Finish(1)
  \/ \E p \in Payloads : WebhookRequest(HookReq(webhookSecret, "POST", TRUE, p))

SpecPayload == InitPayload /\ [][NextPayload]_vars

\* SpecQuery: GET requests for the static page /a with and without a
\* query, processed concurrently; the page handler renders from the query.
InitQuery == InitWith(EdgeTables)

NextQuery ==
  \/ \E r \in Reqs, query \in Queries, lang \in Languages :
       BeginWith(r, "GET", PathA, query, lang, "absent")
  \/ \E r \in Reqs : HandleRecorded(r, "page")
  \/ \E r \in Reqs : Store(r)
  \/ \E r \in Reqs : Finish(r)

SpecQuery == InitQuery /\ [][NextQuery]_vars

\* SpecTrack: blog post requests of two clients for two slugs, whose
\* goroutines call ShouldTrackView concurrently, while time passes.
\* The requests for blog posts: their path and address headers
BlogY == BlogsPrefix \o <<"y">>
TrackReqs ==
  [path : {BlogX, BlogXSlash, BlogY, BlogsPrefix, PathA},
   xff : {<<>>, <<"ipA">>}, xri : {<<>>}, remote : RemoteAddrs]

InitTrack ==
  /\ AtRest
  /\ guard = IdleGuard
  /\ tracker = NewViewTracker
  /\ views = IdleViews
  /\ client = IdleClient
  /\ hook = IdleHook

NextTrack ==
  \/ \E g \in Reqs, r \in TrackReqs : TrackBegin(g, r)
  \/ \E g \in Reqs : TrackEnd(g)
  \/ TrackTick

SpecTrack == InitTrack /\ [][NextTrack]_vars

\* SpecClient: one call of doJSON under every configuration, with every
\* outcome of each attempt and a context that may be cancelled at any
\* moment. SpecClientFair: the same, where the call keeps running and the
\* backoff timer keeps counting.
InitClient ==
  /\ AtRest
  /\ guard = IdleGuard
  /\ tracker = IdleTracker
  /\ views = IdleViews
  /\ \E config \in Configs : client = NewCall(config)
  /\ hook = IdleHook

ClientStep ==
  \/ ClientLoop
  \/ ClientSelect
  \/ \E outcome \in DoOutcomes : ClientDo(outcome)
  \/ \E decoded \in BOOLEAN : ClientAfter(decoded)

NextClient ==
  \/ ClientStep
  \/ ClientTick
  \/ ClientCancel

SpecClient == InitClient /\ [][NextClient]_vars

SpecClientFair == SpecClient /\ WF_vars(ClientStep) /\ WF_vars(ClientTick)

(* ------------------------------ claims --------------------------------- *)
IsGet(q) == q.method = "GET"
Done(q) == q.pc = "done"
\* the request found no entry for its key
Cold(q) == q.looked /\ ~q.entry.found
\* the request found an entry marked stale
SawStale(q) == q.looked /\ q.entry.found /\ q.entry.stale
\* the request found a fresh entry and could read its payload
FreshHit(q) == q.looked /\ q.entry.found /\ ~q.entry.stale /\ ~q.decompErr
\* slot r takes a step that starts a new request
Begins(r) == reqs[r].pc \in {"idle", "done"} /\ reqs'[r] # reqs[r]

\* a rebuild is in flight: the handler runs into the recorder, or has run and
\* its output is about to be stored
Rebuilding(q) == q.pc \in {"record", "captured"}

\* C1: for every key at most one rebuild (a handler run whose output is
\* going to be stored for the key) is in flight.
C1_AtMostOneRebuild ==
  \A r1, r2 \in Reqs :
    Rebuilding(reqs[r1]) /\ Rebuilding(reqs[r2]) /\ KeyOf(reqs[r1]) = KeyOf(reqs[r2])
      => r1 = r2

\* C2: of the GETs for one cold key processed concurrently only one runs the
\* origin handler, and all their responses carry the same body and ETag.
\* (Two requests that both found the key cold and both stored an entry were
\* processed concurrently: a store leaves the key warm.)
C2_ColdStampede ==
  \A r1, r2 \in Reqs :
    ( /\ r1 # r2
      /\ Done(reqs[r1]) /\ Done(reqs[r2])
      /\ IsGet(reqs[r1]) /\ IsGet(reqs[r2])
      /\ KeyOf(reqs[r1]) = KeyOf(reqs[r2])
      /\ Cold(reqs[r1]) /\ Cold(reqs[r2])
      /\ reqs[r1].stored /\ reqs[r2].stored )
    => /\ ~(reqs[r1].ran /\ reqs[r2].ran)
       /\ reqs[r1].resp.body = reqs[r2].resp.body
       /\ reqs[r1].resp.etag = reqs[r2].resp.etag

\* C3: a GET that finds a stale incremental entry is answered with the stored
\* payload and X-Cache: STALE, and the origin handler does not run for it.
C3_StaleServedIncremental ==
  \A r \in Reqs :
    ( /\ Done(reqs[r]) /\ IsGet(reqs[r]) /\ SawStale(reqs[r])
      /\ reqs[r].entry.strategy = "incremental"
      /\ Ctx(reqs[r].path).strategy = "incremental" )
    => /\ ~reqs[r].ran
       /\ reqs[r].resp.status = StatusOK
       /\ reqs[r].resp.body = reqs[r].entry.body
       /\ reqs[r].resp.xcache = "STALE"

StaleStatic(q) ==
  /\ IsGet(q) /\ SawStale(q)
  /\ q.entry.strategy = "static"
  /\ Ctx(q.path).strategy = "static"

C4_StaleRebuiltStep(r) ==
  /\ (Begins(r) /\ StaleStatic(reqs'[r])) => reqs'[r].pc = "record"
  /\ (StaleStatic(reqs'[r]) /\ Done(reqs'[r]))
       => /\ reqs'[r].ran
          /\ reqs'[r].resp.status = reqs'[r].rec.statusCode
          /\ reqs'[r].resp.body = reqs'[r].rec.body
          /\ reqs'[r].resp.xcache # "STALE"
  /\ (StaleStatic(reqs[r]) /\ reqs[r].pc = "captured" /\ reqs'[r].pc = "stored")
       => /\ reqs[r].rec.statusCode = StatusOK
          /\ Get(index', KeyOf(reqs[r])).found
          /\ ~Get(index', KeyOf(reqs[r])).stale
          /\ Get(index', KeyOf(reqs[r])).body = reqs[r].rec.body
          /\ Get(index', KeyOf(reqs[r])).ETag = Digest(reqs[r].rec.body)

C5_LaterStep(r1, r2) ==
  ( /\ r1 # r2
    /\ Done(reqs[r1]) /\ IsGet(reqs[r1]) /\ Cold(reqs[r1]) /\ reqs[r1].stored
    /\ Begins(r2) /\ IsGet(reqs'[r2])
    /\ KeyOf(reqs'[r2]) = KeyOf(reqs[r1]) )
  => /\ Done(reqs'[r2])
     /\ ~reqs'[r2].ran
     /\ reqs'[r2].resp.status = StatusOK => reqs'[r2].resp.body = reqs[r1].resp.body
     /\ reqs'[r2].resp.etag = reqs[r1].resp.etag

\* C5: once the first GET for a key has stored its 200 response, a later GET
\* for the key (no entry is marked stale in SpecConc) is answered from the
\* store, with the body and ETag of the first response, and without the
\* origin handler.
C5_LaterGetsSameAsFirst == [][\A r1, r2 \in Reqs : C5_LaterStep(r1, r2)]_vars

\* h[i..j] is a member of the list h: a maximal stretch without a comma
IsMember(h, i, j) ==
  /\ i = 1 \/ h[i - 1] = Comma
  /\ j = Len(h) \/ h[j + 1] = Comma
  /\ \A k \in i..j : h[k] # Comma

\* the member h[i..j] is the validator e between blanks
MemberIs(h, i, j, e) ==
  \E a \in i..j : h[a] = e /\ \A k \in (i..j) \ {a} : h[k] = Space

Names(h, e) ==
  \/ h = <<Star>>
  \/ \E i \in 1..Len(h), j \in 1..Len(h) : IsMember(h, i, j) /\ MemberIs(h, i, j, e)

\* C6: on a fresh hit the response is 304 with an empty body exactly when
\* If-None-Match is "*" or one of its comma-separated members (surrounding
\* blanks apart) is the entry's weak validator; otherwise it is 200 with the
\* cached payload.
C6_NotModifiedIffMatch ==
  \A r \in Reqs :
    (Done(reqs[r]) /\ IsGet(reqs[r]) /\ FreshHit(reqs[r]))
    => IF Names(reqs[r].inm, WeakETag(reqs[r].entry.ETag))
       THEN reqs[r].resp.status = StatusNotModified /\ reqs[r].resp.body = EmptyBody
       ELSE reqs[r].resp.status = StatusOK /\ reqs[r].resp.body = reqs[r].entry.body

\* C6 witness: a 304 for a validator that is the last, blank-padded member
C6_Witness ==
  \E r \in Reqs :
    /\ Done(reqs[r]) /\ FreshHit(reqs[r])
    /\ reqs[r].inm = <<OtherETag, Comma, Space, WeakETag(reqs[r].entry.ETag)>>
    /\ reqs[r].resp.status = StatusNotModified

\* a GET on a route with a canonical path and a caching strategy
Cacheable(q) ==
  IsGet(q) /\ Ctx(q.path).canonical # <<>> /\ ~Uncached(Ctx(q.path).strategy)

\* C7: every response to a GET on a cacheable route carries X-Cache: HIT when
\* a fresh entry is served (the 304 included), STALE when a stale entry is
\* served, MISS when the origin handler ran.
C7_XCacheOnEveryResponse ==
  \A r \in Reqs :
    (Done(reqs[r]) /\ Cacheable(reqs[r]))
    => reqs[r].resp.xcache =
         IF reqs[r].ran THEN "MISS"
         ELSE IF reqs[r].entry.stale THEN "STALE" ELSE "HIT"

\* C8: a response served from an entry and the response of the request that
\* has just stored an entry carry the ETag W/"<digest>" of that entry (the
\* digest of the payload it holds) and Cache-Control: no-cache.
C8_ETagOfTheEntry ==
  \A r \in Reqs :
    Done(reqs[r]) =>
      /\ (FreshHit(reqs[r]) /\ ~reqs[r].ran)
           => /\ reqs[r].resp.etag = WeakETag(reqs[r].entry.ETag)
              /\ reqs[r].resp.cc = "no-cache"
      /\ reqs[r].stored
           => /\ reqs[r].resp.etag = WeakETag(Digest(reqs[r].resp.body))
              /\ reqs[r].resp.cc = "no-cache"

\* a step of a request whose method is not GET
C9_NonGetStep(r) ==
  (reqs'[r] # reqs[r] /\ reqs'[r].method \notin {"", "GET"})
  => /\ index' = index
     /\ ~reqs'[r].looked
     /\ reqs'[r].entry = NoEntry
     /\ reqs'[r].pc \in {"pass", "done"}
     /\ Done(reqs'[r])
          => /\ reqs'[r].ran /\ ~reqs'[r].stored
             /\ reqs'[r].resp.xcache = NoHeader
             /\ reqs'[r].resp.etag = NoETag
             /\ reqs'[r].resp.cc = NoHeader

\* C9: a request whose method is not GET goes to the inner handler as it is:
\* the index is not read for it, no step of it changes the index, and its
\* response is what the handler wrote, without cache headers.
C9_NonGetPassesThrough == [][\A r \in Reqs : C9_NonGetStep(r)]_vars

\* C9 witness: a POST to the cached page /a was answered by the handler while a
\* fresh entry for its key existed
C9_Witness ==
  \E r \in Reqs :
    /\ Done(reqs[r]) /\ reqs[r].method = "POST" /\ reqs[r].ran
    /\ Ctx(reqs[r].path).canonical # <<>>
    /\ Get(index, KeyOf(reqs[r])).found
    /\ ~Get(index, KeyOf(reqs[r])).stale

\* C10: a GET whose strategy is dynamic or empty, or whose canonical path is
\* empty, is answered by running the origin handler; nothing is stored for it
\* and no stored entry is served to it.
C10_DynamicNeverFromCache ==
  \A r \in Reqs :
    ( /\ Done(reqs[r]) /\ IsGet(reqs[r])
      /\ Ctx(reqs[r].path).canonical = <<>> \/ Uncached(Ctx(reqs[r].path).strategy) )
    => /\ reqs[r].ran
       /\ ~reqs[r].stored
       /\ reqs[r].resp.xcache # "HIT"
       /\ reqs[r].resp.status # StatusNotModified

\* C11: an entry is stored only for a 200 response with a non-empty body: no
\* entry of the index holds a 0-byte payload, and a request whose handler
\* wrote nothing has stored nothing.
C11_OnlyNonEmptyStored ==
  /\ \A k \in DOMAIN index : index[k].body # EmptyBody
  /\ \A r \in Reqs : reqs[r].stored => reqs[r].rec.body # EmptyBody

\* C12: a body larger than the buffer cap is not cached: no request has
\* stored such a body and no entry holds one.
C12_LargeBodyNotCached ==
  /\ \A r \in Reqs :
       (reqs[r].ran /\ Len(reqs[r].rec.body) > BufferCap) => ~reqs[r].stored
  /\ \A k \in DOMAIN index : Len(index[k].body) <= BufferCap

\* a step of slot r in which its request r moves
Moves(r) == reqs'[r] # reqs[r]

\* the steps of a cacheable GET whose handler answered with a status other
\* than 200
C13_NonOKStep(r) ==
  LET q == reqs[r]
      q2 == reqs'[r]
  IN  (Moves(r) /\ Cacheable(q)) =>
        /\ (q.pc = "captured" /\ q.rec.statusCode # StatusOK)
             => index' = index /\ q2.pc = "write" /\ ~q2.stored
        /\ (q.pc = "write" /\ q.rec.statusCode # StatusOK)
             => /\ index' = index
                /\ Done(q2) /\ ~q2.stored
                /\ q2.resp.status = q.rec.statusCode
                /\ q2.resp.body = q.rec.body
                /\ q2.resp.xcache = NoHeader /\ q2.resp.etag = NoETag
        /\ q.pc = "stored" => q.rec.statusCode = StatusOK

\* C13: when the handler answers a cacheable GET with a status other than
\* 200, the client receives the handler's status and body, and no step of
\* the request changes the index: the entry of the key stays as it was.
C13_NonOKNotStored == [][\A r \in Reqs : C13_NonOKStep(r)]_vars

\* C13 witness: a GET that found a stale entry was answered with the
\* handler's 500 and the stale entry is still the entry of the key
C13_Witness ==
  \E r \in Reqs :
    /\ Done(reqs[r]) /\ Cacheable(reqs[r]) /\ SawStale(reqs[r]) /\ reqs[r].ran
    /\ reqs[r].resp.status = StatusInternalServerError
    /\ reqs[r].resp.body = ErrBody
    /\ Get(index, KeyOf(reqs[r])) = reqs[r].entry

\* the steps of a cacheable GET whose captured 200 response Set refused
C14_SetFailedStep(r) ==
  LET q == reqs[r]
      q2 == reqs'[r]
  IN  (Moves(r) /\ Cacheable(q)) =>
        /\ (q.pc = "captured" /\ q2.pc = "write") => index' = index
        /\ (q.pc = "write" /\ q.rec.statusCode = StatusOK)
             => /\ index' = index
                /\ Done(q2) /\ ~q2.stored
                /\ q2.resp.status = StatusOK
                /\ q2.resp.body = q.rec.body

\* C14: when Set fails for a captured 200 response, the client still gets
\* the handler's status and whole body, and the entry the key had before
\* (if any) is left as it was.
C14_SetFailureDelivered == [][\A r \in Reqs : C14_SetFailedStep(r)]_vars

\* C14 witness: a GET that found a stale entry rendered a page, Set failed,
\* the page was delivered and the stale entry is still there
C14_Witness ==
  \E r \in Reqs :
    /\ Done(reqs[r]) /\ Cacheable(reqs[r]) /\ SawStale(reqs[r]) /\ reqs[r].ran
    /\ ~reqs[r].stored
    /\ reqs[r].resp.status = StatusOK
    /\ reqs[r].resp.body = reqs[r].rec.body /\ reqs[r].resp.body # EmptyBody
    /\ reqs[r].resp.body # reqs[r].entry.body
    /\ Get(index, KeyOf(reqs[r])) = reqs[r].entry

\* C15: a GET that finds an entry whose payload cannot be read is handled as
\* a miss: the handler runs, its response is stored, and the unreadable
\* entry is gone from the index afterwards.
C15_CorruptEntryReplaced ==
  \A r \in Reqs :
    (Done(reqs[r]) /\ IsGet(reqs[r]) /\ reqs[r].decompErr)
    => /\ reqs[r].ran
       /\ reqs[r].stored
       /\ Get(index, KeyOf(reqs[r])).readable

PostLike == {"post", "category", "tag", "author"}
SiteWide == {"keyvalue", "cms"}

\* C16: a webhook for a post, category, tag or author marks stale every
\* static entry and every incremental entry.
C16_PostMarksStaticAndIncremental ==
  [][\A e \in PostLike :
       Webhook(e) => \A k \in DOMAIN index' :
                       index'[k].strategy \in {"static", "incremental"}
                         => index'[k].stale]_vars

\* slot r starts a GET that finds the entry of its key immutable, fresh and
\* readable
C17_ImmutableHitStep(r) ==
  LET q2 == reqs'[r]
      e == q2.entry
  IN  ( /\ Begins(r) /\ IsGet(q2) /\ q2.looked
        /\ e = Get(index, KeyOf(q2))
        /\ e.found /\ e.strategy = "immutable" /\ ~e.stale /\ e.readable )
      => /\ Done(q2) /\ ~q2.ran
         /\ q2.resp.etag = WeakETag(e.ETag)
         /\ \/ q2.resp.status = StatusNotModified
            \/ /\ q2.resp.status = StatusOK
               /\ q2.resp.body = e.body
               /\ q2.resp.xcache = "HIT"

\* C17: a webhook for a post, category, tag or author leaves every immutable
\* entry as it was, and a GET that finds a fresh immutable entry is a hit
\* with the ETag of that entry.
C17_PostLeavesImmutable ==
  [][ /\ (index' # index /\ \E e \in PostLike : Webhook(e))
           => \A k \in DOMAIN index :
                index[k].strategy = "immutable" => index'[k] = index[k]
      /\ \A r \in Reqs : C17_ImmutableHitStep(r) ]_vars

\* C17 witness: a GET was served a fresh immutable entry while a static
\* entry stood marked stale
C17_Witness ==
  \E r \in Reqs :
    /\ Done(reqs[r]) /\ FreshHit(reqs[r]) /\ ~reqs[r].ran
    /\ reqs[r].entry.strategy = "immutable"
    /\ Get(index, KeyOf(reqs[r])) = reqs[r].entry
    /\ \E k \in DOMAIN index : index[k].strategy = "static" /\ index[k].stale

\* C18: a keyvalue or cms webhook marks every entry stale, immutable ones
\* included, and a GET that finds the entry of its key stale is not served
\* from it: the request goes on to the origin handler.
C18_SiteWideMarksAll ==
  [][ /\ (index' # index /\ \E e \in SiteWide : Webhook(e))
           => \A k \in DOMAIN index' : index'[k].stale
      /\ \A r \in Reqs :
          ( /\ Begins(r) /\ IsGet(reqs'[r]) /\ reqs'[r].looked
            /\ reqs'[r].entry = Get(index, KeyOf(reqs'[r]))
            /\ reqs'[r].entry.found
            /\ reqs'[r].entry.stale )
          => reqs'[r].pc \in {"record", "pass"} ]_vars

\* C18 witness: a GET that found an immutable entry marked stale was
\* answered by the handler
C18_Witness ==
  \E r \in Reqs :
    /\ Done(reqs[r]) /\ IsGet(reqs[r]) /\ SawStale(reqs[r])
    /\ reqs[r].entry.strategy = "immutable"
    /\ reqs[r].ran

\* two URLs of one page or post
SameRoute(p1, p2) ==
  Resolve(registry, p1) = Resolve(registry, p2) /\ Resolve(registry, p1)[1] # "none"

\* slot r starts a GET by one URL while a fresh readable entry is held
\* under the key of another URL of the same page or post
C20_AliasStep(r) ==
  \A p1 \in EdgePaths :
    LET q2 == reqs'[r]
        e == Get(index, GetCacheKey(Ctx(p1).canonical, q2.lang))
    IN  ( /\ Begins(r) /\ IsGet(q2) /\ SameRoute(p1, q2.path)
          /\ e.found /\ ~e.stale /\ e.readable )
        => /\ KeyOf(q2) = GetCacheKey(Ctx(p1).canonical, q2.lang)
           /\ Done(q2) /\ ~q2.ran

\* C20: all URLs of one route give the same cache key: a response cached
\* through one of them is served from the cache through the other.
C20_AliasesShareEntry == [][\A r \in Reqs : C20_AliasStep(r)]_vars

\* C19: after clear-cache has run, the cache directory holds no file, at any
\* depth.
C19_NoEntryFilesLeft ==
  disk.ran => Files(disk.fs) = {}


\* the step handles a request
Handled == guard'.handled = guard.handled + 1

\* C21: a request carrying the internal-bootstrap header is never rejected
\* by the operational middleware: it reaches the handlers behind the chain
\* (no 429 from the rate limiter, no 403 from the IP-ban middleware, no 404
\* from the honeypot) and no address is banned by handling it, whatever the
\* buckets and the ban list hold.
C21_BootstrapNeverRejected ==
  [][(Handled /\ guard'.last.bootstrap) =>
        /\ guard'.last.by = "next"
        /\ guard'.list.banned = guard.list.banned]_vars

\* C29: a request to a honeypot path from client IP x leaves x banned,
\* also when the ban file could not be written; a banned IP stays banned
\* until UnbanIP is called for it; a request from a banned IP is answered
\* 403 by the IP-ban middleware, whatever its path; a request from an IP
\* that is not banned is not answered by the IP-ban middleware.
C29_BannedUntilUnbanned ==
  [][/\ Handled =>
          /\ guard'.last.path \in honeypotPaths
                => IsBanned(guard'.list, guard'.last.ip)
          /\ IsBanned(guard.list, guard'.last.ip)
                <=> (guard'.last.by = "ipban" /\ guard'.last.status = StatusForbidden)
     /\ \A x \in ClientIPs :
          (IsBanned(guard.list, x) /\ ~IsBanned(guard'.list, x))
             => \E written \in BOOLEAN :
                   guard' = [guard EXCEPT !.list = UnbanIP(guard.list, x, written)]]_vars

\* a honeypot request whose ban could not be saved has been handled, and a
\* later request of the same client to a page was answered 403
C29_Witness ==
  /\ guard.list.banned # {} /\ guard.list.file = {}
  /\ guard.handled >= 2
  /\ guard.last.path \notin honeypotPaths
  /\ guard.last.by = "ipban" /\ guard.last.status = StatusForbidden


\* q served, as a hit, the bytes that c captured and stored for the same key
ServedCaptureOf(q, c) ==
  /\ Done(c) /\ c.stored
  /\ Done(q) /\ q.resp.xcache = "HIT" /\ q.resp.status = StatusOK
  /\ KeyOf(q) = KeyOf(c)
  /\ q.resp.body = c.rec.body

\* C22: the Content-Type of a response served from the cache is the
\* Content-Type the origin handler set on the response that was captured
\* for the entry, and text/html; charset=utf-8 when the handler set none.
C22_HitContentTypeAsCaptured ==
  \A r1 \in Reqs, r2 \in Reqs :
    ServedCaptureOf(reqs[r2], reqs[r1]) =>
      reqs[r2].ctype = (IF reqs[r1].ctype = NoHeader THEN ContentTypeHit
                        ELSE reqs[r1].ctype)


\* the step of slot r stores the captured response over an entry marked stale
C23_RebuildStep(r) ==
  LET q == reqs[r]
      old == Get(index, KeyOf(q))
      new == Get(index', KeyOf(q))
  IN  (q.pc = "captured" /\ reqs'[r].stored /\ old.found /\ old.stale)
        => /\ new.found /\ ~new.stale
           /\ (new.ETag # old.ETag) <=> (q.rec.body # old.body)

\* the step of slot r starts a GET whose key holds a fresh, readable entry
C23_FreshStep(r) ==
  LET q2 == reqs'[r]
      e == Get(index, KeyOf(q2))
  IN  (Begins(r) /\ IsGet(q2) /\ Ctx(q2.path).canonical # <<>>
         /\ e.found /\ ~e.stale /\ e.readable)
        => /\ Done(q2) /\ ~q2.ran
           /\ q2.resp.etag = WeakETag(e.ETag)
           /\ q2.resp.status = StatusOK => q2.resp.body = e.body

\* C23: the request that stores its captured response over an entry marked
\* stale leaves the entry fresh, so that a following GET is answered from
\* it without running the handler; the ETag of the rebuilt entry differs
\* from the ETag of the stale entry if and only if the bytes the handler
\* wrote differ from the bytes of the stale entry.
C23_RebuildClearsStale ==
  [][index' # index \/ reqs' # reqs =>
       \A r \in Reqs : C23_RebuildStep(r) /\ C23_FreshStep(r)]_vars

\* a request has rebuilt a stale entry from changed content, and the entry
\* is fresh with another ETag
C23_Witness ==
  \E r \in Reqs :
    LET q == reqs[r] IN
      /\ q.pc = "stored" /\ SawStale(q)
      /\ q.rec.body # q.entry.body
      /\ ~Get(index, KeyOf(q)).stale
      /\ Get(index, KeyOf(q)).ETag # q.entry.ETag


\* call c returns in this step
C27_Returns(c) == views.calls[c].pc # "done" /\ views'.calls[c].pc = "done"

\* C27: a call of Get that begins after Invalidate has returned never
\* returns view counts fetched before that invalidation: it returns either
\* a map fetched from the API after the invalidation, or, when its own API
\* call failed, an error and no data; a call that finds the cache empty
\* and whose API call succeeds stores the map fetched and returns it.
C27_NoCountsFromBeforeInvalidate ==
  [][\A c \in Reqs :
       C27_Returns(c) =>
         LET before == views.calls[c]
             after == views'.calls[c]
         IN  /\ after.err => (after.data = NoData /\ after.fetched)
             /\ ~after.err =>
                  (after.data # NoData /\ after.data[1] > after.floor)
             /\ (before.pc = "fetch" /\ views.data = NoData /\ ~after.err)
                  => (after.data = Fetched(views'.fetches)
                      /\ views'.data = after.data)]_vars

\* after counts were fetched and the cache was invalidated, a call that
\* began afterwards has returned counts of a later fetch, and another one
\* an error
C27_Witness ==
  /\ views.floor >= 1
  /\ \E c \in Reqs :
       LET call == views.calls[c] IN
         call.pc = "done" /\ ~call.err /\ call.floor >= 1 /\ call.fetched
  /\ \E c \in Reqs :
       LET call == views.calls[c] IN
         call.pc = "done" /\ call.err /\ call.floor >= 1


\* C24: the effect of a webhook is determined by the entity of its payload:
\* two decodable POST payloads with the same entity, whatever their event,
\* action, slug and id, applied to the same cache, leave the same entries
\* stale and answer with the same count.
C24_EntityAloneDecides ==
  \A p1 \in Payloads, p2 \in Payloads :
    p1.entity = p2.entity =>
      LET a1 == Handle(index, views, HookReq(webhookSecret, "POST", TRUE, p1))
          a2 == Handle(index, views, HookReq(webhookSecret, "POST", TRUE, p2))
      IN  a1.index = a2.index /\ a1.invalidated = a2.invalidated

\* a webhook for a post has marked a stored entry stale and reported it
C24_Witness ==
  /\ hook.status = StatusOK /\ hook.entity = "post" /\ hook.invalidated >= 1
  /\ \E k \in DOMAIN index : index[k].stale

\* what the request that was handled last lacks to be let through to the
\* switch on a recognised entity
Recognised == {"post", "category", "tag", "author", "keyvalue", "cms"}
Effective(h) ==
  /\ h.secret = webhookSecret /\ h.method = "POST" /\ h.decodable
  /\ h.entity \in Recognised

MarkedInStep == \E k \in DOMAIN index : ~index[k].stale /\ index'[k].stale
ViewsClearedInStep == views.data # NoData /\ views'.data = NoData

\* C30: an entry is marked stale, and the views cache is emptied, only by a
\* webhook request that carries the configured secret, is a POST with a
\* decodable body and names a recognised entity; every other webhook
\* request leaves the index and the views cache as they were and is
\* answered 401 (no or another secret), 405 (not a POST), 400 (body not
\* decodable) or 200 with invalidated 0 (unknown entity).
C30_OnlyAuthenticWebhooksInvalidate ==
  [][/\ (MarkedInStep \/ ViewsClearedInStep) => Effective(hook')
     /\ (hook' # hook /\ ~Effective(hook')) =>
          /\ index' = index /\ views' = views
          /\ hook'.invalidated = 0
          /\ hook'.status =
               IF hook'.secret # webhookSecret THEN StatusUnauthorized
               ELSE IF hook'.method # "POST" THEN StatusMethodNotAllowed
               ELSE IF ~hook'.decodable THEN StatusBadRequest
               ELSE StatusOK]_vars

\* with a stored fresh entry and view counts held, requests were refused:
\* the last one for its secret, and the entry and the counts are still there
C30_Witness ==
  /\ hook.status = StatusUnauthorized /\ hook.secret = "wrong"
  /\ hook.method = "POST" /\ hook.decodable /\ hook.entity = "cms"
  /\ views.data # NoData
  /\ \E k \in DOMAIN index : ~index[k].stale


\* c is an answered request whose captured page is the entry its key holds,
\* fresh and readable
HoldsPageOf(idx, c) ==
  /\ Done(c) /\ c.stored
  /\ Get(idx, KeyOf(c)).found /\ Get(idx, KeyOf(c)).body = c.rec.body
  /\ ~Get(idx, KeyOf(c)).stale /\ Get(idx, KeyOf(c)).readable

\* C25: the cache key does not depend on the query: a GET that differs
\* from an earlier GET of the same route and language only in its query
\* finds the entry stored for the earlier one and is answered, without the
\* handler, with the body the handler wrote for the earlier query.
C25_QueryNotInKey ==
  [][\A r1 \in Reqs, r2 \in Reqs :
       (/\ r1 # r2 /\ Begins(r2) /\ HoldsPageOf(index, reqs[r1])
        /\ IsGet(reqs'[r2])
        /\ reqs'[r2].path = reqs[r1].path /\ reqs'[r2].lang = reqs[r1].lang
        /\ reqs'[r2].query # reqs[r1].query)
       => /\ KeyOf(reqs'[r2]) = KeyOf(reqs[r1])
          /\ Done(reqs'[r2]) /\ ~reqs'[r2].ran
          /\ reqs'[r2].resp.xcache = "HIT"
          /\ reqs'[r2].resp.body = reqs[r1].rec.body]_vars

\* a GET with page=2 has been answered from the cache with the page the
\* handler wrote for page=1
C25_Witness ==
  \E r1 \in Reqs, r2 \in Reqs :
    /\ HoldsPageOf(index, reqs[r1]) /\ reqs[r1].query = <<"page=1">>
    /\ Done(reqs[r2]) /\ reqs[r2].query = <<"page=2">>
    /\ reqs[r2].resp.xcache = "HIT" /\ reqs[r2].resp.body = reqs[r1].rec.body
    /\ reqs[r2].resp.body = Render(GetByPath(registry, PathA), reqs[r2].lang, content)
                               \o <<"page=1">>


\* C26: for every client IP and slug, of the calls of ShouldTrackView that
\* fall within one cooldown window at most one returns true: no two views
\* are tracked for one key less than the cooldown apart.
C26_OneViewPerWindow ==
  \A i \in 1..Len(tracker.tracked), j \in 1..Len(tracker.tracked) :
    (i < j /\ tracker.tracked[i].key = tracker.tracked[j].key)
      => tracker.tracked[j].at - tracker.tracked[i].at >= viewCooldown


\* At most MaxRetries+1 attempts; an attempt after the first only follows a
\* transport error or a status >= 500; after a response with a status below
\* 500 the loop is over.
C28_Attempts ==
  /\ client.attempts <= client.config.MaxRetries + 1
  /\ (client.attempts > 0 /\ client.pc \in {"loop", "wait", "do"})
       => (client.lastErr \/ client.status >= 500)
  /\ (client.attempts > 0 /\ ~client.lastErr /\ client.status < 500)
       => client.pc \in {"after", "returned"}

\* A call whose context was cancelled during the backoff wait makes no
\* further attempt and returns the context's error.
C28_CancelStep ==
  (client.pc = "wait" /\ client.woken = "done")
    => /\ client'.attempts = client.attempts
       /\ client'.pc = "returned" => client'.result = "ctx.Err"
       /\ client'.pc \in {"wait", "returned"}

\* C28: doJSON always terminates, after at most MaxRetries+1 attempts: it
\* makes a further attempt only after a transport error or a response with
\* status >= 500, stops at the first response with status < 500, and
\* returns the context's error without a further attempt when the context
\* is cancelled during a backoff wait.
C28_TerminatesWithinRetries ==
  /\ []C28_Attempts
  /\ [][C28_CancelStep]_vars
  /\ <>(client.pc = "returned")

C28_Witness ==
  /\ client.pc = "returned"
  /\ client.result = "ctx.Err"
  /\ client.woken = "done"
  /\ client.attempts >= 2
  /\ client.attempts < client.config.MaxRetries + 1

====
